---- MODULE Spec2Model ----
(***************************************************************************)
(* Model of videos/1/puml_to_code.py: the PlantUML state-diagram compiler. *)
(*                                                                         *)
(* The diagram is read as the program reads it, in passes over its lines:  *)
(* parse_initial_state_transitions, parse_states, the two checks,          *)
(* parse_transitions, then generate_fsm_header_file.  Each pass only       *)
(* consumes the lines of its own shape and keeps their order, so the       *)
(* lines of a pass are drawn one by one when the pass consumes them.       *)
(* After generation the emitted C functions init() and post_event() are    *)
(* run on the generated dispatch code.                                     *)
(*                                                                         *)
(* State names are opaque identifiers; up to renaming, the k-th distinct   *)
(* name declared by a state line is the number k (states.keys() is then    *)
(* 1..n in insertion order).  Guard and action code is opaque text: a      *)
(* guard is present or absent and each evaluation of it at dispatch time   *)
(* yields either truth value.                                              *)
(***************************************************************************)
EXTENDS Integers, Sequences, FiniteSets, TLC

\* ---------- bounds of the explored diagrams ----------
MaxStates == 2
MaxClauses == 2
MaxAliases == 1
MaxDepth == 2
MaxHierStates == 3
MaxDeepStates == 4
MaxDeepClauses == 1

\* ---------- vocabulary ----------
None == 0
Events == {"ev"}
HookNames == {"entry", "exit"}
NoGuard == "none"
GuardCodes == {"g"}
ActionLists == {<< >>, <<"a">>}

\* what parse_transition_line returns for a well-formed clause text
\* (from_state is the state whose list holds the transition)
TransitionClauses == [event : Events, guard : {NoGuard} \cup GuardCodes,
                      actions : ActionLists]
HookClauses == [event : HookNames, guard : {NoGuard}, actions : {<<"a">>}]
Clauses == TransitionClauses \cup HookClauses
\* a state line without ": clause" (trans_txt is empty)
NoClause == [event |-> "", guard |-> NoGuard, actions |-> << >>]

VARIABLES pc, err, initial_state_names, states, state_stack,
          descent, cur_state, entered, log

vars == <<pc, err, initial_state_names, states, state_stack,
          descent, cur_state, entered, log>>

\* ---------- helpers over the State records ----------
Declared == DOMAIN states

Range(seq) == {seq[i] : i \in DOMAIN seq}

Transition(clause, to) ==
    [event |-> clause.event, guard |-> clause.guard, to_state |-> to,
     actions |-> clause.actions]

NewState(name, parent, initial) ==
    [name |-> name, parent_state |-> parent, child_states |-> << >>,
     is_initial_state |-> initial, out_transitions |-> << >>,
     int_transitions |-> << >>, entry_transitions |-> << >>,
     exit_transitions |-> << >>]

\* ---------- size of the diagram read so far ----------
NumClauses(sts) ==
    LET RECURSIVE Sum(_)
        Sum(n) == IF n = 0 THEN 0
                  ELSE Len(sts[n].out_transitions) + Len(sts[n].int_transitions)
                       + Len(sts[n].entry_transitions) + Len(sts[n].exit_transitions)
                       + Sum(n - 1)
    IN Sum(Cardinality(DOMAIN sts))

\* child registrations under a state that is not the recorded parent
AliasesOf(sts) == {<<p, s>> \in (DOMAIN sts) \X (DOMAIN sts) :
                     s \in Range(sts[p].child_states) /\ sts[s].parent_state # p}

\* the diagram read so far has at most c transition clauses and at most a
\* re-declarations of a state under another block
Within(sts, c, a) == NumClauses(sts) <= c /\ Cardinality(AliasesOf(sts)) <= a

\* a failed assert while the lines are read aborts the run: nothing of the
\* model is returned
Fail(kind) ==
    /\ pc' = "failed"
    /\ err' = kind
    /\ states' = << >>
    /\ state_stack' = << >>
    /\ initial_state_names' = {}
    /\ UNCHANGED <<descent, cur_state, entered, log>>

\* ---------- parse_initial_state_transitions ----------
ParseInitialOk(name) ==
    /\ pc = "parse_initial"
    /\ name \notin initial_state_names
    /\ initial_state_names' = initial_state_names \cup {name}
    /\ UNCHANGED <<pc, err, states, state_stack, descent, cur_state, entered, log>>

ParseInitialDuplicate(name) ==
    /\ pc = "parse_initial"
    /\ name \in initial_state_names
    /\ Fail("DuplicateInitialTransition")

ParseInitialTrailingText(name) ==
    /\ pc = "parse_initial"
    /\ name \notin initial_state_names
    /\ Fail("MalformedInitialTransition")

ParseInitialDone ==
    /\ pc = "parse_initial"
    /\ pc' = "parse_states"
    /\ UNCHANGED <<err, initial_state_names, states, state_stack, descent, cur_state, entered, log>>

\* ---------- parse_states ----------
CloseBrace ==
    /\ pc = "parse_states"
    /\ IF SubSeq(state_stack, 1, Len(state_stack) - 1) = << >>
          THEN Fail("UnmatchedCloseBrace")
          ELSE /\ state_stack' = SubSeq(state_stack, 1, Len(state_stack) - 1)
               /\ UNCHANGED <<pc, err, initial_state_names, states, descent,
                              cur_state, entered, log>>

\* states.setdefault(name, State(...)) followed by the child registration
Registered(name) ==
    LET parent_state == state_stack[Len(state_stack)]
        created == IF name \in Declared THEN states
                   ELSE [n \in Declared \cup {name} |->
                            IF n = name
                               THEN NewState(name, parent_state, name \in initial_state_names)
                               ELSE states[n]]
    IN IF parent_state # None /\ name \notin Range(created[parent_state].child_states)
          THEN [created EXCEPT ![parent_state].child_states = Append(@, name)]
          ELSE created

\* filing of the inline clause by its event name
Filed(sts, name, clause) ==
    IF clause = NoClause THEN sts
    ELSE IF clause.event = "entry"
        THEN [sts EXCEPT ![name].entry_transitions = Append(@, Transition(clause, name))]
    ELSE IF clause.event = "exit"
        THEN [sts EXCEPT ![name].exit_transitions = Append(@, Transition(clause, name))]
    ELSE [sts EXCEPT ![name].int_transitions = Append(@, Transition(clause, name))]

DeclareState(name, clause, open_brace) ==
    /\ pc = "parse_states"
    /\ name \in Declared \/ name = Cardinality(Declared) + 1
    /\ open_brace => Len(state_stack) <= MaxDepth
    /\ states' = Filed(Registered(name), name, clause)
    /\ state_stack' = IF open_brace THEN Append(state_stack, name) ELSE state_stack
    /\ UNCHANGED <<pc, err, initial_state_names, descent, cur_state, entered, log>>

DeclareStateBadClause ==
    /\ pc = "parse_states"
    /\ Fail("InvalidTransitionClause")

\* end of the lines: parse_states returns the states (its stack is dropped
\* without a look at it)
ParseStatesDone ==
    /\ pc = "parse_states"
    /\ pc' = "check_initial"
    /\ state_stack' = << >>
    /\ UNCHANGED <<err, initial_state_names, states, descent, cur_state, entered, log>>

\* a failed assert of a check: the run aborts on the states the check was given
FailedCheck(kind) ==
    /\ pc' = "failed"
    /\ err' = kind
    /\ UNCHANGED <<initial_state_names, states, state_stack, descent, cur_state, entered, log>>

\* ---------- check_initial_states_exist ----------
CheckInitialStatesExist ==
    /\ pc = "check_initial"
    /\ IF \E name \in initial_state_names : name \notin Declared
          THEN FailedCheck("UndefinedInitialState")
          ELSE /\ pc' = "check_states"
               /\ UNCHANGED <<err, initial_state_names, states, state_stack, descent,
                              cur_state, entered, log>>

\* ---------- check_states ----------
RootInitialNames == {x \in Declared : states[x].parent_state = None /\ states[x].is_initial_state}

InitialChildren(state) == {x \in Range(states[state].child_states) : states[x].is_initial_state}

Min(S) == CHOOSE x \in S : \A y \in S : x <= y

\* check_states without its loop over the composite states
CheckStatesResultRootOnly ==
    IF RootInitialNames = {} THEN "NoInitialTopLevelState"
    ELSE IF Cardinality(RootInitialNames) # 1 THEN "MultipleInitialTopLevelStates"
    ELSE "none"

\* the first failed assert of check_states, "none" when all of them pass
CheckStatesResult ==
    LET bad == {st \in Declared : states[st].child_states # << >>
                                  /\ Cardinality(InitialChildren(st)) # 1}
    IN IF RootInitialNames = {} THEN "NoInitialTopLevelState"
       ELSE IF Cardinality(RootInitialNames) # 1 THEN "MultipleInitialTopLevelStates"
       ELSE IF bad = {} THEN "none"
       ELSE IF InitialChildren(Min(bad)) = {} THEN "NoInitialChildState"
       ELSE "MultipleInitialChildStates"

CheckStates ==
    /\ pc = "check_states"
    /\ IF CheckStatesResult # "none"
          THEN FailedCheck(CheckStatesResult)
          ELSE /\ pc' = "parse_transitions"
               /\ UNCHANGED <<err, initial_state_names, states, state_stack, descent,
                              cur_state, entered, log>>

\* ---------- parse_transitions ----------
LinkTransition(from_state, to_state, clause) ==
    /\ pc = "parse_transitions"
    /\ from_state \in Declared
    /\ to_state \in Declared
    /\ states' = [states EXCEPT ![from_state].out_transitions =
                                   Append(@, Transition(clause, to_state))]
    /\ UNCHANGED <<pc, err, initial_state_names, state_stack, descent, cur_state, entered, log>>

LinkMissingEvent ==
    /\ pc = "parse_transitions"
    /\ Fail("MissingTransitionEvent")

LinkUndefinedState(from_state, to_state) ==
    /\ pc = "parse_transitions"
    /\ from_state \notin Declared \/ to_state \notin Declared
    /\ Fail("UndefinedState")

LinkBadClause ==
    /\ pc = "parse_transitions"
    /\ Declared # {}
    /\ Fail("InvalidTransitionClause")

\* a line no pass has consumed trips the assert at the end of parse_puml_file
UnparsableLine ==
    /\ pc = "parse_transitions"
    /\ Fail("UnparsableLine")

\* parse_puml_file returns; generate_fsm_header_file picks the root initial state
ParseTransitionsDone ==
    /\ pc = "parse_transitions"
    /\ pc' = "descend"
    /\ descent' = <<CHOOSE x \in RootInitialNames : TRUE>>
    /\ UNCHANGED <<err, initial_state_names, states, state_stack, cur_state, entered, log>>

\* ---------- generate_fsm_header_file: the initial state ----------
Last(seq) == seq[Len(seq)]

\* [x for x in state.child_states if x.is_initial_state][0]
InitialChild(state) ==
    LET cs == states[state].child_states
        i == Min({j \in DOMAIN cs : states[cs[j]].is_initial_state})
    IN cs[i]

\* one iteration of "while initial_state.child_states" (descent keeps the
\* states the loop has visited, initial_state is its last element)
DescendInitial ==
    /\ pc = "descend"
    /\ states[Last(descent)].child_states # << >>
    /\ Len(descent) <= Cardinality(Declared)
    /\ descent' = Append(descent, InitialChild(Last(descent)))
    /\ UNCHANGED <<pc, err, initial_state_names, states, state_stack, cur_state, entered, log>>

\* ---------- the resolver: makePostEventStateSwitchCaseCode ----------
Parent(st) == states[st].parent_state

\* positions, in list order, of the transitions carrying the event
Matching(transitions, event_name) ==
    {i \in DOMAIN transitions : transitions[i].event = event_name}

RECURSIVE Ascending(_)
Ascending(S) == IF S = {} THEN << >> ELSE <<Min(S)>> \o Ascending(S \ {Min(S)})

\* the walk with the outgoing transitions of a level looked at before its
\* internal ones
RECURSIVE MatchLevelOutFirst(_, _)
MatchLevelOutFirst(state, event_name) ==
    IF state = None THEN [kind |-> "none", state |-> None]
    ELSE IF Matching(states[state].out_transitions, event_name) # {}
        THEN [kind |-> "out", state |-> state]
    ELSE IF Matching(states[state].int_transitions, event_name) # {}
        THEN [kind |-> "int", state |-> state]
    ELSE MatchLevelOutFirst(Parent(state), event_name)

\* the "while state" walk: the first level with a matching internal
\* transition (checked first) or a matching outgoing transition
RECURSIVE MatchLevel(_, _)
MatchLevel(state, event_name) ==
    IF state = None THEN [kind |-> "none", state |-> None]
    ELSE IF Matching(states[state].int_transitions, event_name) # {}
        THEN [kind |-> "int", state |-> state]
    ELSE IF Matching(states[state].out_transitions, event_name) # {}
        THEN [kind |-> "out", state |-> state]
    ELSE MatchLevel(Parent(state), event_name)

RECURSIVE UpTo(_, _)
UpTo(from, state) ==
    IF from = state THEN <<from>> ELSE <<from>> \o UpTo(Parent(from), state)

\* the exit chain ending at the level itself
StatesExitedUpToLevel(current_state, state) == UpTo(current_state, state)

StatesExited(current_state, state) ==
    IF Parent(state) # None
       THEN Append(UpTo(current_state, state), Parent(state))
       ELSE UpTo(current_state, state)

RECURSIVE WithAncestors(_, _)
WithAncestors(chain, state) ==
    IF Parent(chain[1]) \notin {state, None}
       THEN WithAncestors(<<Parent(chain[1])>> \o chain, state)
       ELSE chain

\* "while states_entered[-1].child_states", cut after fuel iterations
RECURSIVE WithInitialChildren(_, _)
WithInitialChildren(chain, fuel) ==
    IF states[Last(chain)].child_states # << >> /\ fuel > 0
       THEN WithInitialChildren(Append(chain, InitialChild(Last(chain))), fuel - 1)
       ELSE chain

StatesEntered(to_state, state) ==
    WithInitialChildren(WithAncestors(<<to_state>>, state), Cardinality(Declared))

\* the descent from st reaches a state without children (a descent that has not
\* ended after one step per declared state is in a cycle of child lists)
DescentEnds(st) ==
    states[Last(WithInitialChildren(<<st>>, Cardinality(Declared)))].child_states = << >>

\* ---------- the emitted statements ----------
\* call_state_exit_actions(k<st>State); / call_state_entry_actions(k<st>State);
Calls(op, sts) ==
    [k \in DOMAIN sts |-> [op |-> op, state |-> sts[k], idx |-> 0, guard |-> NoGuard]]

\* the action blocks emitted without their "if (guard)"
RECURSIVE TransitionsActionCodeUnguarded(_, _, _, _)
TransitionsActionCodeUnguarded(transitions, positions, list, state) ==
    IF positions = << >> THEN << >>
    ELSE LET transition == transitions[Head(positions)]
             rest == TransitionsActionCodeUnguarded(transitions, Tail(positions), list, state)
         IN IF transition.actions = << >> THEN rest
            ELSE <<[op |-> list, state |-> state, idx |-> Head(positions),
                    guard |-> NoGuard]>> \o rest

\* makeTransitionsActionCode: "if (guard) { actions }", the "if" only with a
\* guard, for each transition that has actions; list and state say which
\* transition list of which state the positions are taken from
RECURSIVE TransitionsActionCode(_, _, _, _)
TransitionsActionCode(transitions, positions, list, state) ==
    IF positions = << >> THEN << >>
    ELSE LET transition == transitions[Head(positions)]
             rest == TransitionsActionCode(transitions, Tail(positions), list, state)
         IN IF transition.actions = << >> THEN rest
            ELSE <<[op |-> list, state |-> state, idx |-> Head(positions),
                    guard |-> transition.guard]>> \o rest

\* the block without its closing "break;"
TransitionBlockNoBreak(current_state, state, i) ==
    LET trans == states[state].out_transitions[i]
        states_entered == StatesEntered(trans.to_state, state)
    IN [idx |-> i, guard |-> trans.guard,
        body |-> Calls("exit", StatesExited(current_state, state))
                 \o TransitionsActionCode(states[state].out_transitions, <<i>>, "out", state)
                 \o Calls("entry", states_entered)
                 \o <<[op |-> "new_state", state |-> Last(states_entered), idx |-> 0,
                       guard |-> NoGuard]>>]

\* the block emitted for one matching outgoing transition of level state:
\* "if (guard) {" exit calls, the transition's actions, entry calls,
\* "new_state = ...; break; }"
TransitionBlock(current_state, state, i) ==
    LET trans == states[state].out_transitions[i]
        states_entered == StatesEntered(trans.to_state, state)
    IN [idx |-> i, guard |-> trans.guard,
        body |-> Calls("exit", StatesExited(current_state, state))
                 \o TransitionsActionCode(states[state].out_transitions, <<i>>, "out", state)
                 \o Calls("entry", states_entered)
                 \o <<[op |-> "new_state", state |-> Last(states_entered), idx |-> 0,
                       guard |-> NoGuard],
                      [op |-> "break", state |-> None, idx |-> 0, guard |-> NoGuard]>>]

PostEventStateSwitchCaseCode(event_name, current_state) ==
    LET level == MatchLevel(current_state, event_name)
    IN IF level.kind = "int"
          THEN [kind |-> "int", state |-> level.state,
                action_code |-> TransitionsActionCode(states[level.state].int_transitions,
                                   Ascending(Matching(states[level.state].int_transitions,
                                                      event_name)),
                                   "int", level.state),
                blocks |-> << >>]
       ELSE IF level.kind = "out"
          THEN LET out_trans == Ascending(Matching(states[level.state].out_transitions,
                                                   event_name))
               IN [kind |-> "out", state |-> level.state, action_code |-> << >>,
                   blocks |-> [k \in DOMAIN out_trans |->
                                  TransitionBlock(current_state, level.state, out_trans[k])]]
       ELSE [kind |-> "none", state |-> None, action_code |-> << >>, blocks |-> << >>]

\* get_event_names
EventNames ==
    {ev \in Events : \E st \in Declared :
        \/ Matching(states[st].int_transitions, ev) # {}
        \/ Matching(states[st].out_transitions, ev) # {}}

\* destinations whose entry chain the generator computes
ResolvedTargets ==
    {to_state \in Declared : \E ev \in EventNames, current_state \in Declared :
        LET level == MatchLevel(current_state, ev)
        IN /\ level.kind = "out"
           /\ \E i \in Matching(states[level.state].out_transitions, ev) :
                 states[level.state].out_transitions[i].to_state = to_state}

\* the loop over the initial children has ended; makePostEventSwitchCode
\* returns once every entry chain has been computed
GenerateCode ==
    /\ pc = "descend"
    /\ states[Last(descent)].child_states = << >>
    /\ \A st \in ResolvedTargets : DescentEnds(st)
    /\ pc' = "emitted"
    /\ UNCHANGED <<err, initial_state_names, states, state_stack, descent, cur_state, entered, log>>

\* ---------- the generated machine ----------
\* makeInitStateEntryCode: the initial state preceded by its ancestors
RECURSIVE InitStatesEntered(_)
InitStatesEntered(chain) ==
    IF Parent(chain[1]) # None THEN InitStatesEntered(<<Parent(chain[1])>> \o chain) ELSE chain

\* ---------- running the emitted C code ----------
\* the statements of a case in sequence from control state run: ops are the
\* hook calls and action blocks executed, fired the blocks of outgoing
\* transitions entered; a "break" leaves the switch
RECURSIVE RunStatements(_, _, _)
RunStatements(stmts, holds, run) ==
    IF stmts = << >> \/ run.broke THEN run
    ELSE LET stmt == Head(stmts)
             next == IF stmt.op = "break" THEN [run EXCEPT !.broke = TRUE]
                     ELSE IF stmt.op = "new_state" THEN [run EXCEPT !.new_state = stmt.state]
                     ELSE IF stmt.guard = NoGuard \/ holds[stmt.idx]
                        THEN [run EXCEPT !.ops = Append(@, [op |-> stmt.op,
                                                            state |-> stmt.state,
                                                            idx |-> stmt.idx])]
                     ELSE run
         IN RunStatements(Tail(stmts), holds, next)

\* the blocks "if (guard) { body }" of the outgoing candidates in sequence;
\* holds gives each candidate's guard where the block tests it, holds_again
\* where the body tests it again around the transition's actions
RECURSIVE RunBlocks(_, _, _, _)
RunBlocks(blocks, holds, holds_again, run) ==
    IF blocks = << >> \/ run.broke THEN run
    ELSE LET block == Head(blocks)
         IN IF block.guard = NoGuard \/ holds[block.idx]
               THEN RunBlocks(Tail(blocks), holds, holds_again,
                              RunStatements(block.body, holds_again,
                                            [run EXCEPT !.fired = Append(@, block.idx)]))
               ELSE RunBlocks(Tail(blocks), holds, holds_again, run)

\* post_event(cur_state, event): new_state starts as cur_state
PostEventResult(current_state, event_name, holds, holds_again) ==
    LET code == PostEventStateSwitchCaseCode(event_name, current_state)
        start == [new_state |-> current_state, ops |-> << >>, fired |-> << >>,
                  broke |-> FALSE]
    IN IF code.kind = "int"
          THEN RunStatements(code.action_code, holds, start)
          ELSE RunBlocks(code.blocks, holds, holds_again, start)

\* the states whose entry hook ran after their last exit hook
RECURSIVE Applied(_, _)
Applied(ops, set) ==
    IF ops = << >> THEN set
    ELSE Applied(Tail(ops),
                 IF Head(ops).op = "entry" THEN set \cup {Head(ops).state}
                 ELSE IF Head(ops).op = "exit" THEN set \ {Head(ops).state}
                 ELSE set)

\* init(): the entry calls of makeInitStateEntryCode, then the initial state
\* is returned
FsmInit ==
    /\ pc = "emitted"
    /\ pc' = "running"
    /\ LET result == RunStatements(Calls("entry", InitStatesEntered(<<Last(descent)>>)),
                                   [i \in {} |-> TRUE],
                                   [new_state |-> Last(descent), ops |-> << >>,
                                    fired |-> << >>, broke |-> FALSE])
       IN /\ cur_state' = result.new_state
          /\ entered' = Applied(result.ops, {})
          /\ log' = [from |-> None, event |-> "init", ops |-> result.ops,
                     fired |-> result.fired]
    /\ UNCHANGED <<err, initial_state_names, states, state_stack, descent>>

\* the caller keeps the state post_event returns
PostEvent(event_name, holds, holds_again) ==
    /\ pc = "running"
    /\ LET result == PostEventResult(cur_state, event_name, holds, holds_again)
       IN /\ cur_state' = result.new_state
          /\ entered' = Applied(result.ops, entered)
          /\ log' = [from |-> cur_state, event |-> event_name, ops |-> result.ops,
                     fired |-> result.fired]
    /\ UNCHANGED <<pc, err, initial_state_names, states, state_stack, descent>>

Init ==
    /\ pc = "parse_initial"
    /\ err = "none"
    /\ initial_state_names = {}
    /\ states = << >>
    /\ state_stack = <<None>>
    /\ descent = << >>
    /\ cur_state = None
    /\ entered = {}
    /\ log = [from |-> None, event |-> "none", ops |-> << >>, fired |-> << >>]

Valuations == [1..MaxClauses -> BOOLEAN]

\* the whole pipeline on diagrams of at most MaxStates states and MaxClauses
\* transition clauses, then the generated machine
Next ==
    \/ \E name \in 1..MaxStates : ParseInitialOk(name)
    \/ \E name \in 1..MaxStates : ParseInitialDuplicate(name)
    \/ \E name \in 1..MaxStates : ParseInitialTrailingText(name)
    \/ ParseInitialDone
    \/ CloseBrace
    \/ \E name \in 1..MaxStates, clause \in Clauses \cup {NoClause}, open_brace \in BOOLEAN :
          DeclareState(name, clause, open_brace) /\ Within(states', MaxClauses, MaxAliases)
    \/ DeclareStateBadClause
    \/ ParseStatesDone
    \/ CheckInitialStatesExist
    \/ CheckStates
    \/ \E from_state \in 1..MaxStates, to_state \in 1..MaxStates, clause \in TransitionClauses :
          LinkTransition(from_state, to_state, clause) /\ Within(states', MaxClauses, MaxAliases)
    \/ LinkMissingEvent
    \/ \E from_state \in 1..MaxStates, to_state \in 1..MaxStates :
          LinkUndefinedState(from_state, to_state)
    \/ LinkBadClause
    \/ UnparsableLine
    \/ ParseTransitionsDone
    \/ DescendInitial
    \/ GenerateCode
    \/ FsmInit
    \/ \E event_name \in Events, holds \in Valuations, holds_again \in Valuations :
          PostEvent(event_name, holds, holds_again)

Spec == Init /\ [][Next]_vars

\* the hierarchy builder, the validator and the initial-state descent on
\* diagrams of at most MaxHierStates states without transition clauses
NextHier ==
    \/ \E name \in 1..MaxHierStates : ParseInitialOk(name)
    \/ \E name \in 1..MaxHierStates : ParseInitialDuplicate(name)
    \/ \E name \in 1..MaxHierStates : ParseInitialTrailingText(name)
    \/ ParseInitialDone
    \/ CloseBrace
    \/ \E name \in 1..MaxHierStates, open_brace \in BOOLEAN :
          DeclareState(name, NoClause, open_brace) /\ Within(states', 0, MaxAliases)
    \/ ParseStatesDone
    \/ CheckInitialStatesExist
    \/ CheckStates
    \/ ParseTransitionsDone
    \/ DescendInitial
    \/ GenerateCode

SpecHier == Init /\ [][NextHier]_vars

\* the resolver on tree-shaped diagrams of at most MaxDeepStates states with at
\* most MaxDeepClauses outgoing transitions
NextDeep ==
    \/ \E name \in 1..MaxDeepStates : ParseInitialOk(name)
    \/ ParseInitialDone
    \/ CloseBrace
    \/ \E name \in 1..MaxDeepStates, open_brace \in BOOLEAN :
          DeclareState(name, NoClause, open_brace) /\ Within(states', 0, 0)
    \/ ParseStatesDone
    \/ CheckInitialStatesExist
    \/ CheckStates
    \/ \E from_state \in 1..MaxDeepStates, to_state \in 1..MaxDeepStates,
          clause \in TransitionClauses :
          LinkTransition(from_state, to_state, clause) /\ Within(states', MaxDeepClauses, 0)
    \/ ParseTransitionsDone
    \/ DescendInitial
    \/ GenerateCode
    \/ FsmInit
    \/ \E event_name \in Events, holds \in Valuations, holds_again \in Valuations :
          PostEvent(event_name, holds, holds_again)

SpecDeep == Init /\ [][NextDeep]_vars

\* ======================================================================
\* The claims
\* ======================================================================

\* ---------- vocabulary of the claims ----------
RECURSIVE Ancestors(_)
Ancestors(st) ==
    IF states[st].parent_state = None THEN {}
    ELSE {states[st].parent_state} \cup Ancestors(states[st].parent_state)

AncestorsOrSelf(st) == {st} \cup Ancestors(st)

HasInternal(st, ev) ==
    \E i \in DOMAIN states[st].int_transitions : states[st].int_transitions[i].event = ev

HasOutgoing(st, ev) ==
    \E i \in DOMAIN states[st].out_transitions : states[st].out_transitions[i].event = ev

\* the lowest of st and its ancestors that declares a transition on ev, None
\* when none does
FirstMatchingLevel(st, ev) ==
    LET levels == {L \in AncestorsOrSelf(st) :
                      /\ HasInternal(L, ev) \/ HasOutgoing(L, ev)
                      /\ \A A \in AncestorsOrSelf(st) :
                            L \in Ancestors(A) => ~(HasInternal(A, ev) \/ HasOutgoing(A, ev))}
    IN IF levels = {} THEN None ELSE CHOOSE L \in levels : TRUE

\* the code has been generated
Generated == pc \in {"emitted", "running"}

OpsOf(stmts, op) == SelectSeq(stmts, LAMBDA x : x.op = op)

StatesOf(stmts, op) == [k \in DOMAIN OpsOf(stmts, op) |-> OpsOf(stmts, op)[k].state]

\* chain[1..j] runs down the parents to chain[j], chain[j..] down the initial
\* children to a state without children
DownToLeafThrough(chain, j) ==
    /\ \A k \in 1..(j - 1) : chain[k] = states[chain[k + 1]].parent_state
    /\ \A k \in j..(Len(chain) - 1) :
          /\ states[chain[k]].child_states # << >>
          /\ chain[k + 1] \in InitialChildren(chain[k])
    /\ states[chain[Len(chain)]].child_states = << >>

\* the top-level ancestor of a state (the state itself when it has no parent)
TopLevel(st) == CHOOSE A \in AncestorsOrSelf(st) : states[A].parent_state = None

\* ---------- C1 ----------
BlockAsClaimed(S, L, i, block) ==
    LET trans == states[L].out_transitions[i]
        ex == StatesOf(block.body, "exit")
        en == StatesOf(block.body, "entry")
        acts == OpsOf(block.body, "out")
        sets == OpsOf(block.body, "new_state")
    IN /\ block.idx = i
       /\ block.guard = trans.guard
       \* the order: exit calls, the actions, entry calls, new_state, break
       /\ block.body = Calls("exit", ex) \o acts \o Calls("entry", en) \o sets
                       \o <<[op |-> "break", state |-> None, idx |-> 0, guard |-> NoGuard]>>
       \* S, S's parent, ... up to L, then L's parent if L has one
       /\ ex # << >> /\ ex[1] = S
       /\ \A k \in 1..(Len(ex) - 1) : ex[k + 1] = states[ex[k]].parent_state
       /\ IF states[L].parent_state = None
             THEN ex[Len(ex)] = L
             ELSE /\ Len(ex) >= 2
                  /\ ex[Len(ex) - 1] = L
                  /\ ex[Len(ex)] = states[L].parent_state
       \* the transition's own actions
       /\ acts = IF trans.actions = << >> THEN << >>
                 ELSE <<[op |-> "out", state |-> L, idx |-> i, guard |-> trans.guard]>>
       \* ancestors of the destination below L (from the top when L is no
       \* ancestor of it), the destination, initial children down to a leaf
       /\ \E j \in DOMAIN en :
             /\ en[j] = trans.to_state
             /\ \A k \in 1..(j - 1) : en[k] # L
             /\ states[en[1]].parent_state =
                   (IF L \in Ancestors(trans.to_state) THEN L ELSE None)
             /\ DownToLeafThrough(en, j)
       /\ Len(sets) = 1 /\ sets[1].state = en[Len(en)]

\* C1: in every generated case whose first matching level L has outgoing (and
\* no internal) transitions on the event there is one block per such
\* transition, in declaration order, and each block holds, in this order, the
\* exit calls for S up to L and L's parent, the transition's actions, the
\* entry calls from below L (or from the top) down to the destination and on
\* down the initial children to a leaf, and new_state set to that leaf.
C1_TransitionBlocks ==
    Generated =>
        \A S \in Declared, ev \in Events :
            LET L == FirstMatchingLevel(S, ev)
                code == PostEventStateSwitchCaseCode(ev, S)
            IN (L # None /\ ~HasInternal(L, ev)) =>
                  LET out_trans == Ascending({i \in DOMAIN states[L].out_transitions :
                                                 states[L].out_transitions[i].event = ev})
                  IN /\ code.kind = "out"
                     /\ Len(code.blocks) = Len(out_trans)
                     /\ \A k \in DOMAIN out_trans :
                           BlockAsClaimed(S, L, out_trans[k], code.blocks[k])

\* a transition declared two levels above the active leaf has fired: three
\* exit calls, its actions, three entry calls down to a leaf
C1_Witness ==
    /\ pc = "running"
    /\ log.fired # << >>
    /\ Len(OpsOf(log.ops, "exit")) >= 3
    /\ Len(OpsOf(log.ops, "out")) = 1
    /\ Len(OpsOf(log.ops, "entry")) >= 3
    /\ cur_state = log.ops[Len(log.ops)].state

\* ---------- C2 ----------
RECURSIVE PathToTop(_)
PathToTop(st) ==
    IF states[st].parent_state = None THEN <<st>>
    ELSE <<st>> \o PathToTop(states[st].parent_state)

\* C2: for an outgoing transition whose source and destination lie under
\* different top-level states, and every leaf S at or below the source whose
\* event resolves to it, the block's exit calls are the full path from S up to
\* the top-level state of the source, its entry calls the path from the
\* top-level state of the destination down to the destination and on to the
\* resolved leaf, and the transition's actions lie between the two.
C2_FullPathsBetweenTrees ==
    Generated =>
        \A S \in Declared, ev \in Events :
            LET L == FirstMatchingLevel(S, ev)
                code == PostEventStateSwitchCaseCode(ev, S)
            IN (L # None /\ ~HasInternal(L, ev) /\ states[S].child_states = << >>) =>
                  \A k \in DOMAIN code.blocks :
                     LET block == code.blocks[k]
                         trans == states[L].out_transitions[block.idx]
                         ex == StatesOf(block.body, "exit")
                         en == StatesOf(block.body, "entry")
                         down == PathToTop(trans.to_state)
                     IN TopLevel(L) # TopLevel(trans.to_state) =>
                           /\ ex = PathToTop(S)
                           /\ Len(en) >= Len(down)
                           /\ \A j \in DOMAIN down : en[j] = down[Len(down) + 1 - j]
                           /\ DownToLeafThrough(en, Len(down))
                           /\ block.body = Calls("exit", ex) \o OpsOf(block.body, "out")
                                           \o Calls("entry", en)
                                           \o SubSeq(block.body, Len(block.body) - 1,
                                                     Len(block.body))

\* ---------- C3 ----------
\* C3: when the first matching level of S for the event has an internal
\* transition on it, posting the event in S returns S and calls no state
\* entry and no state exit action, whatever the guards evaluate to.
C3_InternalKeepsState ==
    Generated =>
        \A S \in Declared, ev \in Events :
            LET L == FirstMatchingLevel(S, ev)
            IN (L # None /\ HasInternal(L, ev)) =>
                  \A holds \in Valuations, holds_again \in Valuations :
                     LET result == PostEventResult(S, ev, holds, holds_again)
                     IN /\ result.new_state = S
                        /\ result.fired = << >>
                        /\ \A k \in DOMAIN result.ops : result.ops[k].op \notin {"entry", "exit"}

\* an internal transition has run its actions in a state whose level, or an
\* ancestor of it, also declares an outgoing transition on the event
C3_Witness ==
    /\ pc = "running"
    /\ log.event \in Events
    /\ log.ops # << >>
    /\ \A k \in DOMAIN log.ops : log.ops[k].op = "int"
    /\ \E A \in AncestorsOrSelf(log.ops[1].state) : HasOutgoing(A, log.event)
    /\ cur_state = log.from

\* ---------- C4 ----------
\* the matching internal transitions of L whose guard holds or is absent
SatisfiedInternal(L, ev, holds) ==
    {i \in DOMAIN states[L].int_transitions :
        /\ states[L].int_transitions[i].event = ev
        /\ states[L].int_transitions[i].guard = NoGuard \/ holds[i]}

\* C4 as stated: of the internal transitions of the level that match the
\* event only the first one whose guard holds (or that is unguarded) runs its
\* actions; no later one runs for the same posted event.
C4_FirstSatisfiedOnly ==
    Generated =>
        \A S \in Declared, ev \in Events :
            LET L == FirstMatchingLevel(S, ev)
            IN (L # None /\ HasInternal(L, ev)) =>
                  \A holds \in Valuations :
                     LET result == PostEventResult(S, ev, holds, holds)
                     IN \A k \in DOMAIN result.ops :
                           /\ result.ops[k].op = "int"
                           /\ result.ops[k].state = L
                           /\ result.ops[k].idx = Min(SatisfiedInternal(L, ev, holds))

\* C4 amended: the internal transitions of the level that match the event are
\* taken in declaration order and every one whose guard holds (or that is
\* unguarded) and that has actions runs them, an earlier one not stopping a
\* later one; nothing of another level runs and the state is kept.
C4_EverySatisfiedRuns ==
    Generated =>
        \A S \in Declared, ev \in Events :
            LET L == FirstMatchingLevel(S, ev)
            IN (L # None /\ HasInternal(L, ev)) =>
                  \A holds \in Valuations :
                     LET result == PostEventResult(S, ev, holds, holds)
                         runs == Ascending({i \in SatisfiedInternal(L, ev, holds) :
                                               states[L].int_transitions[i].actions # << >>})
                     IN /\ result.new_state = S
                        /\ result.ops = [k \in DOMAIN runs |->
                                            [op |-> "int", state |-> L, idx |-> runs[k]]]

\* two internal transitions of one level have both run for one posted event
C4_Witness ==
    /\ pc = "running"
    /\ log.event \in Events
    /\ Len(log.ops) = 2
    /\ log.ops[1].op = "int" /\ log.ops[2].op = "int"
    /\ log.ops[1].state = log.ops[2].state
    /\ log.ops[1].idx < log.ops[2].idx

\* ---------- C5 ----------
\* the matching outgoing transitions of L whose guard holds or is absent
SatisfiedOutgoing(L, ev, holds) ==
    {i \in DOMAIN states[L].out_transitions :
        /\ states[L].out_transitions[i].event = ev
        /\ states[L].out_transitions[i].guard = NoGuard \/ holds[i]}

\* C5: the outgoing candidates of the resolving level are tried in
\* declaration order and at most one fires per posted event, the first whose
\* guard holds or is absent; a guarded candidate declared after an unguarded
\* one never fires: none of its calls or actions run and it does not set
\* new_state.
C5_GuardPrecedence ==
    Generated =>
        \A S \in Declared, ev \in Events :
            LET L == FirstMatchingLevel(S, ev)
            IN (L # None /\ ~HasInternal(L, ev)) =>
                  \A holds \in Valuations, holds_again \in Valuations :
                     LET result == PostEventResult(S, ev, holds, holds_again)
                         sat == SatisfiedOutgoing(L, ev, holds)
                         outs == states[L].out_transitions
                     IN /\ Len(result.fired) <= 1
                        /\ IF sat = {}
                              THEN /\ result.fired = << >>
                                   /\ result.ops = << >>
                                   /\ result.new_state = S
                              ELSE /\ result.fired = <<Min(sat)>>
                                   /\ \A k \in DOMAIN result.ops :
                                         result.ops[k].op = "out" => result.ops[k].idx = Min(sat)
                                   /\ outs[Min(sat)].to_state
                                         \in Range(StatesOf(result.ops, "entry"))
                                   /\ result.new_state = result.ops[Len(result.ops)].state
                        /\ \A i \in DOMAIN outs, j \in DOMAIN outs :
                              (/\ i < j
                               /\ outs[i].event = ev /\ outs[j].event = ev
                               /\ outs[i].guard = NoGuard /\ outs[j].guard # NoGuard)
                              => j \notin Range(result.fired)

\* an unguarded transition declared before a guarded one on the same event
\* has fired, alone
C5_Witness ==
    /\ pc = "running"
    /\ log.event \in Events
    /\ log.fired = <<1>>
    /\ LET L == FirstMatchingLevel(log.from, log.event)
       IN /\ L # None
          /\ Len(states[L].out_transitions) = 2
          /\ states[L].out_transitions[1].guard = NoGuard
          /\ states[L].out_transitions[2].guard # NoGuard
          /\ states[L].out_transitions[1].event = states[L].out_transitions[2].event
          /\ states[L].out_transitions[1].to_state # states[L].out_transitions[2].to_state

\* ---------- C6 ----------
NoOutgoingLinked == \A st \in Declared : states[st].out_transitions = << >>

\* C6: past validation exactly one state without parent is marked initial and
\* every state with children has exactly one child marked initial; a run that
\* fails in validation fails on the first of the checks, in the order
\* initial targets exist, one root initial state, one initial child per
\* composite state; and no outgoing transition is linked before validation
\* has passed.
C6_Validated ==
    /\ pc \in {"parse_transitions", "descend", "emitted", "running"} =>
          /\ Cardinality({st \in Declared : states[st].parent_state = None
                                            /\ states[st].is_initial_state}) = 1
          /\ \A st \in Declared :
                states[st].child_states # << >> =>
                   Cardinality({c \in Range(states[st].child_states) :
                                   states[c].is_initial_state}) = 1
    /\ pc \in {"parse_initial", "parse_states", "check_initial", "check_states"} =>
          NoOutgoingLinked
    /\ err = "UndefinedInitialState" =>
          /\ ~(initial_state_names \subseteq Declared)
          /\ NoOutgoingLinked
    /\ err \in {"NoInitialTopLevelState", "MultipleInitialTopLevelStates"} =>
          /\ initial_state_names \subseteq Declared
          /\ Cardinality({st \in Declared : states[st].parent_state = None
                                            /\ states[st].is_initial_state})
                \in (IF err = "NoInitialTopLevelState" THEN {0} ELSE 2..Cardinality(Declared))
          /\ NoOutgoingLinked
    /\ err \in {"NoInitialChildState", "MultipleInitialChildStates"} =>
          /\ initial_state_names \subseteq Declared
          /\ Cardinality({st \in Declared : states[st].parent_state = None
                                            /\ states[st].is_initial_state}) = 1
          /\ \E st \in Declared :
                /\ states[st].child_states # << >>
                /\ Cardinality({c \in Range(states[st].child_states) :
                                   states[c].is_initial_state}) # 1
          /\ NoOutgoingLinked

\* validation has passed on a diagram with a composite state and an outgoing
\* transition has been linked
C6_Witness ==
    /\ pc = "parse_transitions"
    /\ \E st \in Declared : states[st].child_states # << >>
    /\ ~NoOutgoingLinked

\* ---------- C7 ----------
\* C7: the context stack starts as the sentinel alone; a closing brace that
\* would pop the sentinel fails the compilation; and the end of the input is
\* only passed with the stack back at the sentinel alone (a block still open
\* fails instead of yielding the states).
C7_StackDiscipline ==
    /\ state_stack = <<None>>
    /\ [][pc = "parse_states" =>
            /\ (pc' # "check_initial" /\ state_stack = <<None>>
                /\ Len(state_stack') < Len(state_stack))
                  => pc' = "failed"
            /\ pc' = "parse_states" => (state_stack' # << >> /\ state_stack'[1] = None)
            /\ pc' = "check_initial" => state_stack = <<None>>]_vars

\* ---------- C8 ----------
\* C8: every state is in the child list of at most one state, and that state
\* is its recorded parent (a state without parent is in no child list).
C8_SingleOwner ==
    \A st \in Declared, p \in Declared :
        st \in Range(states[p].child_states) => states[st].parent_state = p

\* ---------- C9 ----------
\* C9: on an accepted diagram the initial-child descent ends: the walk of
\* generate_fsm_header_file never comes back to a state it has visited (a walk
\* that does repeats for ever, each state having one initial child), and every
\* destination whose entry chain the resolver computes leads down to a state
\* without children.
C9_DescentEnds ==
    pc = "descend" =>
        /\ Cardinality(Range(descent)) = Len(descent)
        /\ \A st \in ResolvedTargets : DescentEnds(st)

\* ---------- C10 ----------
\* C10: while the generated machine of a tree-shaped model runs, the states
\* whose entry hook was called after their last exit hook are exactly the
\* active state and its ancestors.
C10_EnteredIsActivePath ==
    (pc = "running" /\ AliasesOf(states) = {}) => entered = AncestorsOrSelf(cur_state)

====
